---- MODULE Spec2Model ----
(***************************************************************************)
(* Cognitive-complexity scoring engines: the function engine (fileCost /   *)
(* nodeCost) and the class-based engine (calcFileCost / NodeCost).         *)
(*                                                                         *)
(* The engine is a pure recursion over a syntax tree handed over by the    *)
(* TypeScript parser.  A tree node is a record                             *)
(*     [kind, text, pos, children]                                         *)
(* where children is what node.getChildren() returns (tokens and           *)
(* SyntaxList nodes included, so getChildAt(i) is children[i + 1]), text   *)
(* is getText() of an identifier, and pos is the node's start position,    *)
(* kept as the path of child indices from the file root (one value for the *)
(* line/column pair; distinct nodes have distinct paths).                  *)
(* node.parent is passed along the recursion as an explicit argument.      *)
(***************************************************************************)
EXTENDS Integers, Sequences, FiniteSets, TLC

VARIABLES file, pc, out

vars == <<file, pc, out>>

(***************************************************************************)
(* Bounds of the input trees.                                              *)
(***************************************************************************)
MaxNest == 2    \* statements and declarations around the innermost statement
MaxOps == 3     \* operators of an expression
MaxDepth == 14  \* levels of a file's tree, tokens included

(***************************************************************************)
(* Values a name resolver can produce besides an identifier's text.        *)
(* Neither is a possible identifier.                                       *)
(***************************************************************************)
Undefined == "!undefined"
UnreachableNodeState == "!UnreachableNodeState"

(***************************************************************************)
(* Syntax trees as the parser builds them.                                 *)
(***************************************************************************)
N(k, ch) == [kind |-> k, text |-> "", pos |-> <<>>, children |-> ch]
Tok(k) == N(k, <<>>)
Ident(t) == [kind |-> "Identifier", text |-> t, pos |-> <<>>, children |-> <<>>]
SyntaxList(ns) == N("SyntaxList", ns)
Block(stmts) ==
    N("Block", <<Tok("OpenBraceToken"), SyntaxList(stmts), Tok("CloseBraceToken")>>)
IfHead(cond) ==
    <<Tok("IfKeyword"), Tok("OpenParenToken"), cond, Tok("CloseParenToken")>>
IfStmt(cond, then) == N("IfStatement", IfHead(cond) \o <<then>>)
IfElse(cond, then, els) ==
    N("IfStatement", IfHead(cond) \o <<then, Tok("ElseKeyword"), els>>)
WhileStmt(cond, body) ==
    N("WhileStatement",
      <<Tok("WhileKeyword"), Tok("OpenParenToken"), cond, Tok("CloseParenToken"), body>>)
Params == <<Tok("OpenParenToken"), SyntaxList(<<>>), Tok("CloseParenToken")>>
FuncDecl(name, stmts) ==
    N("FunctionDeclaration",
      <<Tok("FunctionKeyword"), Ident(name)>> \o Params \o <<Block(stmts)>>)
Arrow(stmts) ==
    N("ArrowFunction", Params \o <<Tok("EqualsGreaterThanToken"), Block(stmts)>>)
ConstDecl(name, init) ==
    N("VariableStatement",
      <<N("VariableDeclarationList",
          <<Tok("ConstKeyword"),
            SyntaxList(<<N("VariableDeclaration",
                           <<Ident(name), Tok("EqualsToken"), init>>)>>)>>),
        Tok("SemicolonToken")>>)
Call(callee, args) ==
    N("CallExpression",
      <<callee, Tok("OpenParenToken"), SyntaxList(args), Tok("CloseParenToken")>>)
Paren(e) ==
    N("ParenthesizedExpression",
      <<Tok("OpenParenToken"), e, Tok("CloseParenToken")>>)
PropAccess(obj, name) ==
    N("PropertyAccessExpression", <<Ident(obj), Tok("DotToken"), Ident(name)>>)
Bin(l, op, r) == N("BinaryExpression", <<l, Tok(op), r>>)
ExprStmt(e) == N("ExpressionStatement", <<e, Tok("SemicolonToken")>>)
Jump(kind, keyword, label) ==
    N(kind, <<Tok(keyword)>>
            \o (IF label = "" THEN <<>> ELSE <<Ident(label)>>)
            \o <<Tok("SemicolonToken")>>)
Method(nameNode, stmts) ==
    N("MethodDeclaration", <<nameNode>> \o Params \o <<Block(stmts)>>)
ClassDecl(name, members) ==
    N("ClassDeclaration",
      <<Tok("ClassKeyword"), Ident(name), Tok("OpenBraceToken"),
        SyntaxList(members), Tok("CloseBraceToken")>>)
ModuleBlock(stmts) ==
    N("ModuleBlock",
      <<Tok("OpenBraceToken"), SyntaxList(stmts), Tok("CloseBraceToken")>>)
Namespace(name, stmts) ==
    N("ModuleDeclaration",
      <<Tok("NamespaceKeyword"), Ident(name), ModuleBlock(stmts)>>)
AmbientModule(stmts) ==
    N("ModuleDeclaration",
      <<SyntaxList(<<Tok("DeclareKeyword")>>), Tok("ModuleKeyword"),
        Tok("StringLiteral"), ModuleBlock(stmts)>>)
SourceFile(stmts) ==
    N("SourceFile", <<SyntaxList(stmts), Tok("EndOfFileToken")>>)

RECURSIVE Label(_, _)
Label(node, path) ==
    [node EXCEPT
        !.pos = path,
        !.children = [i \in DOMAIN node.children |->
                         Label(node.children[i], path \o <<i>>)]]

(***************************************************************************)
(* The parser's tree for the paren-free expression                         *)
(*     x ops[1] x ops[2] ... ops[n] x                                      *)
(* over && and ||: both associate to the left and && binds tighter.        *)
(***************************************************************************)
And == "AmpersandAmpersandToken"
Or == "BarBarToken"
BinOps == {And, Or}
OpSeqs == UNION {[1..n -> BinOps] : n \in 1..MaxOps}

RECURSIVE AndChain(_)
AndChain(m) == IF m = 0 THEN Ident("x") ELSE Bin(AndChain(m - 1), And, Ident("x"))

RECURSIVE ParseOps(_, _)
ParseOps(ops, n) ==
    LET ors == {k \in 1..n : ops[k] = Or}
    IN  IF ors = {}
        THEN AndChain(n)
        ELSE LET k == CHOOSE j \in ors : \A i \in ors : i <= j
             IN  Bin(ParseOps(ops, k - 1), Or, AndChain(n - k))

ParseExpr(ops) == ParseOps(ops, Len(ops))

(***************************************************************************)
(* The input files.                                                        *)
(***************************************************************************)
A == Ident("a")
B == Ident("b")

Leaves ==
    { Jump("BreakStatement", "BreakKeyword", ""),
      Jump("BreakStatement", "BreakKeyword", "L"),
      Jump("ContinueStatement", "ContinueKeyword", ""),
      Jump("ContinueStatement", "ContinueKeyword", "L"),
      ExprStmt(Call(Ident("fact"), <<>>)),
      ExprStmt(Call(Paren(Ident("fact")), <<>>)),
      ExprStmt(Call(Paren(Paren(Ident("fact"))), <<>>)),
      ExprStmt(Call(Ident("other"), <<>>)),
      ExprStmt(Call(PropAccess("obj", "fact"), <<>>)),
      IfStmt(A, Block(<<>>)),
      IfElse(A, Block(<<>>), IfElse(B, Block(<<>>), Block(<<>>))),
      ClassDecl("C", <<Method(Tok("StringLiteral"), <<>>)>>),
      AmbientModule(<<>>) }

Wrappers ==
    {"if", "ifUnbraced", "else", "elseIf", "while", "fact", "f", "handler",
     "callback", "method", "namespace"}

Wrap(w, s) ==
    CASE w = "if" -> IfStmt(A, Block(<<s>>))
      [] w = "ifUnbraced" -> IfStmt(A, s)
      [] w = "else" -> IfElse(A, Block(<<>>), Block(<<s>>))
      [] w = "elseIf" -> IfElse(A, Block(<<>>), IfStmt(B, Block(<<s>>)))
      [] w = "while" -> WhileStmt(A, Block(<<s>>))
      [] w = "fact" -> FuncDecl("fact", <<s>>)
      [] w = "f" -> FuncDecl("f", <<s>>)
      [] w = "handler" -> ConstDecl("handler", Arrow(<<s>>))
      [] w = "callback" -> ExprStmt(Call(Ident("foo"), <<Arrow(<<s>>)>>))
      [] w = "method" -> ClassDecl("C", <<Method(Ident("m"), <<s>>)>>)
      [] w = "namespace" -> Namespace("NS", <<s>>)

\* the statement s inside the wrappers ws, ws[1] outermost
RECURSIVE Nest(_, _)
Nest(ws, s) == IF ws = <<>> THEN s ELSE Wrap(Head(ws), Nest(Tail(ws), s))

Nestings(n) == UNION {[1..k -> Wrappers] : k \in 0..n}

\* levels of the tree: a token is one level
RECURSIVE Depth(_)
Depth(node) ==
    IF node.children = <<>> THEN 1
    ELSE 1 + CHOOSE d \in {Depth(node.children[i]) : i \in DOMAIN node.children} :
                 \A i \in DOMAIN node.children : Depth(node.children[i]) <= d

\* levels a wrapper puts above the statement it holds
WrapDepth(w) == Depth(Wrap(w, Tok("Statement"))) - 1

RECURSIVE NestDepth(_)
NestDepth(ws) == IF ws = <<>> THEN 0 ELSE WrapDepth(Head(ws)) + NestDepth(Tail(ws))

\* the file holding s inside ws has at most MaxDepth levels
Fits(ws, s) == 2 + NestDepth(ws) + Depth(s) <= MaxDepth

Siblings ==
    { FuncDecl("g", <<ExprStmt(Call(Ident("f"), <<>>))>>),
      FuncDecl("g", <<ExprStmt(Call(Ident("g"), <<>>))>>),
      IfStmt(A, Block(<<>>)) }

File(stmts) == Label(SourceFile(stmts), <<>>)

(***************************************************************************)
(* Node inspection.                                                        *)
(***************************************************************************)
KindAt(node, i) ==
    IF i + 1 \in DOMAIN node.children THEN node.children[i + 1].kind ELSE Undefined

\* children.findIndex(child => child.kind === kind): 0-based, -1 when absent
FindIndex(children, kind) ==
    IF \E i \in DOMAIN children : children[i].kind = kind
    THEN (CHOOSE i \in DOMAIN children :
              /\ children[i].kind = kind
              /\ \A j \in 1..(i - 1) : children[j].kind # kind) - 1
    ELSE -1

FunctionKinds ==
    {"FunctionDeclaration", "FunctionExpression", "ArrowFunction",
     "MethodDeclaration", "GetAccessor", "SetAccessor"}

IsFunctionNode(node) == node.kind \in FunctionKinds

GetIdentifier(node) ==
    LET i == FindIndex(node.children, "Identifier")
    IN  IF i = -1 THEN Undefined ELSE node.children[i + 1].text

GetColumnAndLine(node) == node.pos

\* variant: every break or continue counts, labelled or not
IsBreakOrContinueToLabel_AnyJump(node) ==
    node.kind \in {"BreakStatement", "ContinueStatement"}

IsBreakOrContinueToLabel(node) ==
    /\ node.kind \in {"BreakStatement", "ContinueStatement"}
    /\ \E i \in DOMAIN node.children : node.children[i].kind = "Identifier"

(***************************************************************************)
(* Name resolution.                                                        *)
(***************************************************************************)
\* variant: parentheses around the identifier are not unwrapped
GetIdentifierDespiteBrackets_NoUnwrap(node) ==
    IF node.kind = "Identifier" THEN node.text ELSE Undefined

RECURSIVE GetIdentifierDespiteBrackets(_)
GetIdentifierDespiteBrackets(node) ==
    IF node.kind = "Identifier" THEN node.text
    ELSE IF node.kind = "ParenthesizedExpression"
    THEN GetIdentifierDespiteBrackets(node.children[2])
    ELSE Undefined

GetCalledFunctionName(node) ==
    LET name == GetIdentifierDespiteBrackets(node.children[1])
    IN  IF name = Undefined THEN "" ELSE name

GetClassDeclarationName(node) ==
    LET name == GetIdentifier(node)
    IN  IF name = Undefined THEN "" ELSE name

GetFunctionNodeName(func, variableBeingDefined) ==
    IF func.kind \in {"GetAccessor", "SetAccessor"}
    THEN func.children[2].text
    ELSE IF func.kind = "ArrowFunction"
    THEN IF variableBeingDefined = Undefined THEN "" ELSE variableBeingDefined
    ELSE IF func.kind = "FunctionDeclaration"
    THEN func.children[FindIndex(func.children, "FunctionKeyword") + 2].text
    ELSE IF func.kind = "FunctionExpression"
    THEN IF func.children[2].kind = "Identifier"
         THEN func.children[2].text
         ELSE IF variableBeingDefined = Undefined THEN "" ELSE variableBeingDefined
    ELSE IF func.kind = "MethodDeclaration"
    THEN IF GetIdentifier(func) # Undefined
         THEN GetIdentifier(func)
         ELSE UnreachableNodeState
    ELSE UnreachableNodeState

\* variant: a module without identifier is anonymous, like a class
GetModuleDeclarationName_Anonymous(node) ==
    LET i == FindIndex(node.children, "Identifier")
    IN  IF i = -1 THEN "" ELSE node.children[i + 1].text

GetModuleDeclarationName(node) ==
    LET i == FindIndex(node.children, "Identifier")
    IN  IF i = -1 THEN UnreachableNodeState ELSE node.children[i + 1].text

\* the declarations whose name is what their children are contained in
IsNamedDeclarationOfContainer(node) ==
    node.kind \in {"VariableDeclaration", "ClassDeclaration", "ModuleDeclaration"}

GetDeclarationName(node) ==
    IF node.kind = "ClassDeclaration" THEN GetClassDeclarationName(node)
    ELSE IF node.kind = "ModuleDeclaration" THEN GetModuleDeclarationName(node)
    ELSE node.children[1].text

\* variant: a named node starts a new context instead of extending its own
MaybeAddNodeToNamedAncestors_Reset(node, ancestorsOfNode) ==
    IF IsNamedDeclarationOfContainer(node)
    THEN [raised |-> GetDeclarationName(node) = UnreachableNodeState,
          names |-> <<GetDeclarationName(node)>>]
    ELSE IF IsFunctionNode(node)
    THEN LET nodeNameIfCallable == GetFunctionNodeName(node, Undefined)
         IN  IF nodeNameIfCallable = UnreachableNodeState
             THEN [raised |-> TRUE, names |-> ancestorsOfNode]
             ELSE IF nodeNameIfCallable # Undefined /\ nodeNameIfCallable # ""
             THEN [raised |-> FALSE, names |-> <<nodeNameIfCallable>>]
             ELSE [raised |-> FALSE, names |-> ancestorsOfNode]
    ELSE [raised |-> FALSE, names |-> ancestorsOfNode]

\* [raised, names]: names is the context of the node's children
MaybeAddNodeToNamedAncestors(node, ancestorsOfNode) ==
    IF IsNamedDeclarationOfContainer(node)
    THEN [raised |-> GetDeclarationName(node) = UnreachableNodeState,
          names |-> Append(ancestorsOfNode, GetDeclarationName(node))]
    ELSE IF IsFunctionNode(node)
    THEN LET nodeNameIfCallable == GetFunctionNodeName(node, Undefined)
         IN  IF nodeNameIfCallable = UnreachableNodeState
             THEN [raised |-> TRUE, names |-> ancestorsOfNode]
             ELSE IF nodeNameIfCallable # Undefined /\ nodeNameIfCallable # ""
             THEN [raised |-> FALSE, names |-> Append(ancestorsOfNode, nodeNameIfCallable)]
             ELSE [raised |-> FALSE, names |-> ancestorsOfNode]
    ELSE [raised |-> FALSE, names |-> ancestorsOfNode]

(***************************************************************************)
(* Child partitioner: the condition of a branching construct stays at the  *)
(* node's depth, its body and branches are one level below; every child of *)
(* any other node stays at the node's depth.                               *)
(***************************************************************************)
WhereAreChildren(node) ==
    IF node.kind = "IfStatement"
    THEN [same |-> <<node.children[3]>>,
          below |-> <<node.children[5]>>
                    \o (IF Len(node.children) >= 7 THEN <<node.children[7]>> ELSE <<>>)]
    ELSE IF node.kind = "WhileStatement"
    THEN [same |-> <<node.children[3]>>, below |-> <<node.children[5]>>]
    ELSE [same |-> node.children, below |-> <<>>]

(***************************************************************************)
(* Scoring engine.                                                         *)
(***************************************************************************)
InherentKinds ==
    {"CatchClause", "ConditionalExpression", "DoStatement", "ForInStatement",
     "ForOfStatement", "ForStatement", "SwitchStatement", "WhileStatement"}

\* variant: every else keyword is charged, the one of an `else if` included
HasSoloElse_AnyElse(node) == FindIndex(node.children, "ElseKeyword") # -1

HasSoloElse(node) ==
    LET elseIndex == FindIndex(node.children, "ElseKeyword")
    IN  /\ elseIndex # -1
        /\ KindAt(node, elseIndex + 1) # "IfStatement"

InherentCost(node, parent, namedAncestors) ==
    IF node.kind \in InherentKinds \/ IsBreakOrContinueToLabel(node)
    THEN 1
    ELSE IF node.kind = "BinaryExpression" /\ KindAt(parent, 1) # KindAt(node, 1)
    THEN 1
    ELSE IF node.kind = "CallExpression"
    THEN IF \E i \in DOMAIN namedAncestors :
                namedAncestors[i] = GetCalledFunctionName(node)
         THEN 1 ELSE 0
    ELSE IF node.kind = "IfStatement"
    THEN 1 + (IF HasSoloElse(node) THEN 1 ELSE 0)
    ELSE 0

NestingCost(node, parent, depth) ==
    IF /\ depth > 0
       /\ \/ node.kind \in InherentKinds
          \/ node.kind = "IfStatement" /\ parent.kind # "IfStatement"
    THEN depth
    ELSE 0

\* variant: the level below is counted downwards
BelowDepth_Decrement(topLevel, depth) == IF topLevel THEN depth ELSE depth - 1

BelowDepth(topLevel, depth) == IF topLevel THEN depth ELSE depth + 1

Raised == [raised |-> TRUE, score |-> 0, inner |-> <<>>, calls |-> {}]

\* name of a child that starts a container, Undefined for any other child
ContainerName(child, namedAncestorsOfChildren) ==
    IF IsFunctionNode(child)
    THEN LET variableBeingDefined ==
                 IF namedAncestorsOfChildren = <<>> THEN Undefined
                 ELSE namedAncestorsOfChildren[Len(namedAncestorsOfChildren)]
         IN  GetFunctionNodeName(child, variableBeingDefined)
    ELSE IF child.kind = "ClassDeclaration" THEN GetClassDeclarationName(child)
    ELSE IF child.kind = "ModuleDeclaration" THEN GetModuleDeclarationName(child)
    ELSE Undefined

\* variant: the inner of a container child is also hoisted next to it
InnerOfChild_Hoisted(child, childCost, name) ==
    IF name = Undefined
    THEN childCost.inner
    ELSE <<[pos |-> GetColumnAndLine(child),
            inner |-> childCost.inner,
            score |-> childCost.score,
            name |-> name]>> \o childCost.inner

\* what one child adds to inner: itself as a container holding its own inner,
\* or else its inner passed through
InnerOfChild(child, childCost, name) ==
    IF name = Undefined
    THEN childCost.inner
    ELSE <<[pos |-> GetColumnAndLine(child),
            inner |-> childCost.inner,
            score |-> childCost.score,
            name |-> name]>>

RECURSIVE InnerOfChildren(_, _, _)
InnerOfChildren(nodes, costs, names) ==
    IF nodes = <<>> THEN <<>>
    ELSE InnerOfChild(Head(nodes), Head(costs), Head(names))
         \o InnerOfChildren(Tail(nodes), Tail(costs), Tail(names))

RECURSIVE SumScores(_)
SumScores(costs) ==
    IF costs = <<>> THEN 0 ELSE Head(costs).score + SumScores(Tail(costs))

RECURSIVE NodeCost(_, _, _, _, _)

\* the score and inner the loop over nodesInsideNode adds to those of node;
\* childCosts and names are sequences (\o yields one), each child scored once
AggregateScoreAndInnerForChildren(nodesInsideNode, node, localDepth, topLevel, namedAncestorsOfChildren) ==
    LET childCosts ==
            [i \in DOMAIN nodesInsideNode |->
                NodeCost(nodesInsideNode[i], node, topLevel, localDepth,
                         namedAncestorsOfChildren)] \o <<>>
        names ==
            [i \in DOMAIN nodesInsideNode |->
                ContainerName(nodesInsideNode[i], namedAncestorsOfChildren)] \o <<>>
    IN  IF \E i \in DOMAIN childCosts :
               childCosts[i].raised \/ names[i] = UnreachableNodeState
        THEN Raised
        ELSE [raised |-> FALSE,
              score |-> SumScores(childCosts),
              inner |-> InnerOfChildren(nodesInsideNode, childCosts, names),
              calls |-> UNION {childCosts[i].calls : i \in DOMAIN childCosts}]

\* calls records this call and the calls below it: the arguments, the
\* increments the node itself was charged (own) and what the call returned
NodeCost(node, parent, topLevel, depth, namedAncestors) ==
    LET own == InherentCost(node, parent, namedAncestors)
               + NestingCost(node, parent, depth)
        ext == MaybeAddNodeToNamedAncestors(node, namedAncestors)
        parts == WhereAreChildren(node)
        same == AggregateScoreAndInnerForChildren(
                    parts.same, node, depth, topLevel, ext.names)
        below == AggregateScoreAndInnerForChildren(
                     parts.below, node, BelowDepth(topLevel, depth), FALSE, ext.names)
    IN  IF \/ ext.raised
           \/ same.raised
           \/ below.raised
        THEN Raised
        ELSE [raised |-> FALSE,
              score |-> own + same.score + below.score,
              inner |-> same.inner \o below.inner,
              calls |-> {[pos |-> node.pos, kind |-> node.kind,
                          parentKind |-> parent.kind, topLevel |-> topLevel,
                          depth |-> depth, namedAncestors |-> namedAncestors,
                          own |-> own,
                          score |-> own + same.score + below.score,
                          inner |-> same.inner \o below.inner]}
                        \cup same.calls \cup below.calls]

RECURSIVE FlatInner(_)
FlatInner(costs) ==
    IF costs = <<>> THEN <<>> ELSE Head(costs).inner \o FlatInner(Tail(costs))

\* variant: the children of the root are not scored as top level
FileCost_NotTopLevel(f) ==
    LET childCosts == [i \in DOMAIN f.children |->
                          NodeCost(f.children[i], f, FALSE, 0, <<>>)] \o <<>>
    IN  IF \E i \in DOMAIN childCosts : childCosts[i].raised
        THEN [status |-> "raised", score |-> 0, inner |-> <<>>, calls |-> {}]
        ELSE [status |-> "returned",
              score |-> SumScores(childCosts),
              inner |-> FlatInner(childCosts),
              calls |-> UNION {childCosts[i].calls : i \in DOMAIN childCosts}]

FileCost(f) ==
    LET childCosts == [i \in DOMAIN f.children |->
                          NodeCost(f.children[i], f, TRUE, 0, <<>>)] \o <<>>
    IN  IF \E i \in DOMAIN childCosts : childCosts[i].raised
        THEN [status |-> "raised", score |-> 0, inner |-> <<>>, calls |-> {}]
        ELSE [status |-> "returned",
              score |-> SumScores(childCosts),
              inner |-> FlatInner(childCosts),
              calls |-> UNION {childCosts[i].calls : i \in DOMAIN childCosts}]

(***************************************************************************)
(* The class-based engine (calcFileCost / NodeCost).  A cost object is the *)
(* record [status, score, inner] its constructor leaves behind: status is  *)
(* "returned", or the exception calculate() threw.  An element of inner    *)
(* carries pos, score and inner; its name is the node's full text, which   *)
(* the tree records do not hold.                                           *)
(***************************************************************************)
Cost(score, inner) == [status |-> "returned", score |-> score, inner |-> inner]
Thrown(error) == [status |-> error, score |-> 0, inner |-> <<>>]

\* of costs computed one after the other, what is thrown first propagates
FirstStatus(costs) ==
    LET thrown == {i \in DOMAIN costs : costs[i].status # "returned"}
    IN  IF thrown = {} THEN "returned"
        ELSE costs[CHOOSE i \in thrown : \A j \in thrown : i <= j].status

(***************************************************************************)
(* A walk is what calculate() of a cost class does with the children of    *)
(* its node: the calls include(children[index], depth) it makes, in order, *)
(* and how it ends after them: "returned", or the exception it throws.     *)
(***************************************************************************)
Walk(includes, end) == [includes |-> includes, end |-> end]
Inc(index, depth) == [index |-> index, depth |-> depth]

\* a then b
Then(a, b) ==
    IF a.end # "returned" THEN a ELSE Walk(a.includes \o b.includes, b.end)

\* nextChild() of throwingIterator(children.values()), called for the i-th time
ThrowingIterator(children, i) ==
    IF i > Len(children)
    THEN [done |-> TRUE, value |-> Tok("")]
    ELSE [done |-> FALSE, value |-> children[i]]

\* include(nextChild(), depth), nextChild called for the i-th time
IncludeNext(children, i, depth) ==
    IF ThrowingIterator(children, i).done
    THEN Walk(<<>>, "IteratorDone")
    ELSE Walk(<<Inc(i, depth)>>, "returned")

\* nextChild() with the value dropped, called for the i-th time
Consume(children, i) ==
    IF ThrowingIterator(children, i).done
    THEN Walk(<<>>, "IteratorDone")
    ELSE Walk(<<>>, "returned")

IncludeAll(nodes, depth) ==
    Walk([i \in DOMAIN nodes |-> Inc(i, depth)] \o <<>>, "returned")

\* no child is ever pushed to childNodesToAggregate: push() has no argument
ConditionalExpressionCost(node, depth) == Walk(<<>>, "returned")

DoStatementCost(node, depth) ==
    LET children == node.children
        child == ThrowingIterator(children, 1)
    IN  IF child.done THEN Walk(<<>>, "IteratorDone")
        ELSE IF child.value.kind = "DoKeyword"
        THEN Then(IncludeNext(children, 2, depth + 1),
             Then(Consume(children, 3),
             Then(Consume(children, 4),
                  IncludeNext(children, 5, depth))))
        ELSE Walk(<<>>, "UnexpectedNodeError")

\* the loop of IfStatementCost.calculate from the i-th call of nextChild on
RECURSIVE IfStatementWalk(_, _, _)
IfStatementWalk(children, i, depth) ==
    LET child == ThrowingIterator(children, i)
    IN  CASE child.done -> Walk(<<>>, "IteratorDone")
          [] ~child.done /\ child.value.kind = "IfKeyword" ->
                 Then(Consume(children, i + 1),
                 Then(IncludeNext(children, i + 2, depth),
                      IfStatementWalk(children, i + 3, depth)))
          [] ~child.done /\ child.value.kind = "CloseParenToken" ->
                 Then(IncludeNext(children, i + 1, depth + 1),
                      IfStatementWalk(children, i + 2, depth))
          [] ~child.done /\ child.value.kind = "ElseKeyword" ->
                 IncludeNext(children, i + 1, depth + 1)
          [] OTHER -> Walk(<<>>, "UnexpectedNodeError")

IfStatementCost(node, depth) == IfStatementWalk(node.children, 1, depth)

SwitchStatementCost(node, depth) ==
    LET children == node.children
    IN  Then(Consume(children, 1),
        Then(Consume(children, 2),
        Then(IncludeNext(children, 3, depth),
        Then(Consume(children, 4),
             IncludeNext(children, 5, depth + 1)))))

\* the loop body ends in break or throw, so it runs once, on the first child:
\* the test for the closing parenthesis is a second `if`, not an `else if`,
\* and looks at the child the first test looked at
WhileStatementCost(node, depth) ==
    LET children == node.children
        child == ThrowingIterator(children, 1)
        isWhile == child.value.kind = "WhileKeyword"
        condition ==
            IF isWhile
            THEN Then(Consume(children, 2), IncludeNext(children, 3, depth))
            ELSE Walk(<<>>, "returned")
        consumed == IF isWhile THEN 3 ELSE 1
    IN  IF child.done THEN Walk(<<>>, "IteratorDone")
        ELSE Then(condition,
                  IF child.value.kind = "CloseParenToken"
                  THEN IncludeNext(children, consumed + 1, depth + 1)
                  ELSE Walk(<<>>, "UnexpectedNodeError"))

ClassInherentKinds ==
    {"CatchClause", "ConditionalExpression", "ForInStatement", "ForOfStatement",
     "ForStatement", "IfStatement", "SwitchStatement", "WhileStatement"}

ClassNestingKinds == ClassInherentKinds \ {"CatchClause"}

\* the branch of NodeCost.calculate that scores the children of node
ChildrenWalk(node, depth) ==
    CASE \/ node.kind \in {"ForInStatement", "ForOfStatement", "ForStatement"}
         \/ /\ depth # 0
            /\ node.kind \in {"ArrowFunction", "FunctionDeclaration",
                              "FunctionExpression", "MethodDeclaration"} ->
             Walk(<<>>, "returned")
      [] node.kind = "CatchClause" -> IncludeAll(node.children, depth + 1)
      [] node.kind = "ConditionalExpression" -> ConditionalExpressionCost(node, depth)
      [] node.kind = "DoStatement" -> DoStatementCost(node, depth)
      [] node.kind = "IfStatement" -> IfStatementCost(node, depth)
      [] node.kind = "SwitchStatement" -> SwitchStatementCost(node, depth)
      [] node.kind = "WhileStatement" -> WhileStatementCost(node, depth)
      [] OTHER -> IncludeAll(node.children, depth)

\* NodeCost.calculate: the node's own increments, then include() of each child
\* of the walk, a new NodeCost whose inner and score are added to this one's
RECURSIVE ClassNodeCost(_, _)
ClassNodeCost(node, depth) ==
    LET inherent ==
            IF node.kind \in ClassInherentKinds \/ IsBreakOrContinueToLabel(node)
            THEN 1 ELSE 0
        nesting ==
            IF depth > 0 /\ node.kind \in ClassNestingKinds THEN depth ELSE 0
        walk == ChildrenWalk(node, depth)
        costs == [k \in DOMAIN walk.includes |->
                     ClassNodeCost(node.children[walk.includes[k].index],
                                   walk.includes[k].depth)] \o <<>>
    IN  IF \E k \in DOMAIN costs : costs[k].status # "returned"
        THEN Thrown(FirstStatus(costs))
        ELSE IF walk.end # "returned" THEN Thrown(walk.end)
        ELSE Cost(inherent + nesting + SumScores(costs), FlatInner(costs))

Elem(e) == [pos |-> e.pos, score |-> e.score, inner |-> e.inner]

\* the children's elements are computed before the node's own cost
RECURSIVE CalcElemCost(_, _)
CalcElemCost(node, depth) ==
    LET elems == [i \in DOMAIN node.children |->
                     CalcElemCost(node.children[i], 0)] \o <<>>
        nodeCost == ClassNodeCost(node, depth)
    IN  IF \E i \in DOMAIN elems : elems[i].status # "returned"
        THEN [status |-> FirstStatus(elems), pos |-> GetColumnAndLine(node),
              score |-> 0, inner |-> <<>>]
        ELSE IF nodeCost.status # "returned"
        THEN [status |-> nodeCost.status, pos |-> GetColumnAndLine(node),
              score |-> 0, inner |-> <<>>]
        ELSE [status |-> "returned",
              pos |-> GetColumnAndLine(node),
              score |-> SumScores(elems) + nodeCost.score,
              inner |-> ([i \in DOMAIN elems |-> Elem(elems[i])] \o <<>>) \o nodeCost.inner]

CalcFileCost(f) ==
    LET elems == [i \in DOMAIN f.children |-> CalcElemCost(f.children[i], 0)] \o <<>>
    IN  IF \E i \in DOMAIN elems : elems[i].status # "returned"
        THEN [status |-> FirstStatus(elems), score |-> 0, inner |-> <<>>, calls |-> {}]
        ELSE [status |-> "returned",
              score |-> SumScores(elems),
              inner |-> [i \in DOMAIN elems |-> Elem(elems[i])] \o <<>>,
              calls |-> {}]

NoOutput == [status |-> "none", score |-> 0, inner |-> <<>>, calls |-> {}]

\* a file is one statement nested in up to MaxNest others, or one expression
\* of up to MaxOps operators, bare or nested in one statement, or two or
\* three statements in a row
Init ==
    /\ \/ \E ws \in Nestings(MaxNest), l \in Leaves :
              Fits(ws, l) /\ file = File(<<Nest(ws, l)>>)
       \/ \E ws \in Nestings(1), ops \in OpSeqs :
              /\ Fits(ws, ExprStmt(ParseExpr(ops)))
              /\ file = File(<<Nest(ws, ExprStmt(ParseExpr(ops)))>>)
       \/ \E ws \in Nestings(1), l \in Leaves, t \in Siblings :
              Fits(ws, l) /\ file = File(<<Nest(ws, l), t>>)
       \/ \E l \in Leaves, t \in Siblings, u \in Siblings :
              file = File(<<FuncDecl("f", <<l>>), t, u>>)
    /\ pc = "start"
    /\ out = NoOutput

\* the driver scores the file: out is what fileCost returns, or that it raised
Score ==
    /\ pc = "start"
    /\ out' = FileCost(file)
    /\ pc' = "done"
    /\ UNCHANGED file

Next == Score

Spec == Init /\ [][Next]_vars

\* the driver of the class-based engine: out is what calcFileCost returns, or
\* the exception that left it
CalcFile ==
    /\ pc = "start"
    /\ out' = CalcFileCost(file)
    /\ pc' = "done"
    /\ UNCHANGED file

NextClass == CalcFile

SpecClass == Init /\ [][NextClass]_vars

(***************************************************************************)
(* Reading the tree and the report.                                        *)
(***************************************************************************)
RECURSIVE NodeAt(_, _)
NodeAt(root, path) ==
    IF path = <<>> THEN root ELSE NodeAt(root.children[Head(path)], Tail(path))

Returned == pc = "done" /\ out.status = "returned"

IsElselessIf(node) == node.kind = "IfStatement" /\ Len(node.children) = 5

IsEmptyBlock(node) ==
    /\ node.kind = "Block"
    /\ Len(node.children) = 3
    /\ node.children[2].children = <<>>

\* if (a) {} else if (b) {} else {}
IsIfElseIfElse(node) ==
    /\ node.kind = "IfStatement"
    /\ Len(node.children) = 7
    /\ node.children[3].kind = "Identifier"
    /\ IsEmptyBlock(node.children[5])
    /\ LET link == node.children[7]
       IN  /\ link.kind = "IfStatement"
           /\ Len(link.children) = 7
           /\ link.children[3].kind = "Identifier"
           /\ IsEmptyBlock(link.children[5])
           /\ IsEmptyBlock(link.children[7])

\* the operators of an expression in source order
RECURSIVE InOrderOps(_)
InOrderOps(node) ==
    IF node.kind = "BinaryExpression"
    THEN InOrderOps(node.children[1]) \o <<node.children[2].kind>>
         \o InOrderOps(node.children[3])
    ELSE <<>>

\* number of maximal runs of one operator in a non-empty sequence
Runs(ops) == 1 + Cardinality({i \in 2..Len(ops) : ops[i] # ops[i - 1]})

ContainerKinds == FunctionKinds \cup {"ClassDeclaration", "ModuleDeclaration"}

RECURSIVE ContainerPaths(_)
ContainerPaths(node) ==
    (IF node.kind \in ContainerKinds THEN {node.pos} ELSE {})
    \cup UNION {ContainerPaths(node.children[i]) : i \in DOMAIN node.children}

IsPrefix(p, q) == Len(p) <= Len(q) /\ SubSeq(q, 1, Len(p)) = p

(***************************************************************************)
(* C1: an else-less `if` scored at depth 0 is charged exactly 1, an        *)
(* else-less `if` in its then-block is charged exactly 2, and the calls    *)
(* for the then-statement of any `if` are made at depth + 1 whatever       *)
(* topLevel is.                                                            *)
(***************************************************************************)
C1_NestedIfChargedTwo ==
    Returned =>
        \A c \in out.calls :
            c.kind = "IfStatement" =>
                /\ \A b \in out.calls :
                       b.pos = c.pos \o <<5>> => b.depth = c.depth + 1
                /\ (c.depth = 0 /\ IsElselessIf(NodeAt(file, c.pos))) =>
                       /\ c.own = 1
                       /\ \A n \in out.calls :
                              ( /\ Len(n.pos) = Len(c.pos) + 3
                                /\ IsPrefix(c.pos \o <<5, 2>>, n.pos)
                                /\ IsElselessIf(NodeAt(file, n.pos)) )
                              => n.own = 2

(***************************************************************************)
(* C2 as claimed: an `if (a) {} else if (b) {} else {}` chain scored at    *)
(* depth 0 has total score exactly 2.                                      *)
(***************************************************************************)
C2_ChainScoresTwo ==
    Returned =>
        \A c \in out.calls :
            (c.depth = 0 /\ IsIfElseIfElse(NodeAt(file, c.pos))) => c.score = 2

(***************************************************************************)
(* C2 amended: the chain scored at depth 0 has total score exactly 3: one  *)
(* for the leading `if`, one for the `else if` link and one for the solo   *)
(* `else`; the link is charged no nesting increment.                       *)
(***************************************************************************)
C2_ChainScoresThree ==
    Returned =>
        \A c \in out.calls :
            (c.depth = 0 /\ IsIfElseIfElse(NodeAt(file, c.pos))) =>
                /\ c.score = 3
                /\ c.own = 1
                /\ \A l \in out.calls : l.pos = c.pos \o <<7>> => l.own = 2

C2_Witness ==
    /\ Returned
    /\ \E c \in out.calls :
           /\ c.depth = 0
           /\ IsIfElseIfElse(NodeAt(file, c.pos))
           /\ c.score = 3

(***************************************************************************)
(* C3: the score of an expression built from binary operators over plain   *)
(* operands is the number of maximal runs of one operator in source order. *)
(***************************************************************************)
C3_ScoreIsOperatorRuns ==
    Returned =>
        \A c \in out.calls :
            (c.kind = "BinaryExpression" /\ c.parentKind # "BinaryExpression") =>
                c.score = Runs(InOrderOps(NodeAt(file, c.pos)))

(***************************************************************************)
(* C4: a call is charged exactly 1 when its target, with any redundant     *)
(* parentheses removed, is an identifier equal to at least one named       *)
(* ancestor (however often the name occurs), and 0 otherwise.              *)
(***************************************************************************)
RECURSIVE StripParens(_)
StripParens(node) ==
    IF node.kind = "ParenthesizedExpression"
    THEN StripParens(node.children[2])
    ELSE node

CallTarget(c) == StripParens(NodeAt(file, c.pos).children[1])

Occurrences(names, name) == Cardinality({i \in DOMAIN names : names[i] = name})

C4_RecursiveCallChargedOnce ==
    Returned =>
        \A c \in out.calls :
            c.kind = "CallExpression" =>
                c.own = IF /\ CallTarget(c).kind = "Identifier"
                           /\ Occurrences(c.namedAncestors, CallTarget(c).text) >= 1
                        THEN 1 ELSE 0

C4_Witness ==
    /\ Returned
    /\ \E c \in out.calls :
           /\ c.kind = "CallExpression"
           /\ NodeAt(file, c.pos).children[1].kind = "ParenthesizedExpression"
           /\ CallTarget(c).text = "fact"
           /\ Occurrences(c.namedAncestors, "fact") = 2
           /\ c.own = 1

(***************************************************************************)
(* C5: fileCost scores each direct child of the root once, at depth 0,     *)
(* top level, with no named ancestors; the file score is the sum of their  *)
(* scores, hence of every increment charged anywhere in the file, and the  *)
(* file inner is their inner lists in source order: top-level functions    *)
(* yield one entry each, in order, with their name, position and score.    *)
(***************************************************************************)
CallsAt(p) == {c \in out.calls : c.pos = p}
CallAt(p) == CHOOSE c \in out.calls : c.pos = p

RECURSIVE TopScore(_)
TopScore(i) == IF i = 0 THEN 0 ELSE TopScore(i - 1) + CallAt(<<i>>).score

RECURSIVE TopInner(_)
TopInner(i) == IF i = 0 THEN <<>> ELSE TopInner(i - 1) \o CallAt(<<i>>).inner

RECURSIVE SumOwn(_)
SumOwn(cs) ==
    IF cs = {} THEN 0
    ELSE LET c == CHOOSE x \in cs : TRUE IN c.own + SumOwn(cs \ {c})

TopStatements == file.children[1].children

IsFunctionDeclaration(node) == node.kind = "FunctionDeclaration"
TopFunctions == SelectSeq(TopStatements, IsFunctionDeclaration)

C5_FileIsSumAndConcatOfChildren ==
    Returned =>
        /\ \A i \in DOMAIN file.children :
               /\ Cardinality(CallsAt(<<i>>)) = 1
               /\ CallAt(<<i>>).depth = 0
               /\ CallAt(<<i>>).topLevel
               /\ CallAt(<<i>>).namedAncestors = <<>>
        /\ out.score = TopScore(Len(file.children))
        /\ out.score = SumOwn(out.calls)
        /\ out.inner = TopInner(Len(file.children))
        /\ (\A k \in DOMAIN TopStatements :
                \/ TopStatements[k].kind = "FunctionDeclaration"
                \/ ContainerPaths(TopStatements[k]) = {}) =>
               /\ Len(out.inner) = Len(TopFunctions)
               /\ \A k \in DOMAIN TopFunctions :
                      /\ out.inner[k].name = TopFunctions[k].children[2].text
                      /\ out.inner[k].pos = TopFunctions[k].pos
                      /\ out.inner[k].score = CallAt(TopFunctions[k].pos).score

C5_Witness ==
    /\ Returned
    /\ Len(TopStatements) = 3
    /\ TopStatements[1].kind = "FunctionDeclaration"
    /\ TopStatements[2].kind = "FunctionDeclaration"
    /\ TopStatements[3].kind = "IfStatement"
    /\ Len(out.inner) = 2
    /\ out.inner[1].name = "f"
    /\ out.inner[2].name = "g"
    /\ out.inner[1].pos # out.inner[2].pos
    /\ out.inner[1].score = 3
    /\ out.inner[2].score = 1
    /\ out.score = 5

(***************************************************************************)
(* C6: an arrow function initialising a variable is reported under the     *)
(* variable's name, and an arrow function passed as a call argument is     *)
(* reported under the empty name wherever the call occurs.                 *)
(***************************************************************************)
RECURSIVE EntriesOf(_)
EntriesOf(inner) ==
    UNION {{inner[i]} \cup EntriesOf(inner[i].inner) : i \in DOMAIN inner}

ParentPath(p) == SubSeq(p, 1, Len(p) - 1)

C6_ArrowNamedAfterVariableOnly ==
    Returned =>
        \A e \in EntriesOf(out.inner) :
            NodeAt(file, e.pos).kind = "ArrowFunction" =>
                LET parent == NodeAt(file, ParentPath(e.pos))
                IN  /\ parent.kind = "VariableDeclaration" =>
                           e.name = parent.children[1].text
                    /\ ( /\ parent.kind = "SyntaxList"
                         /\ NodeAt(file, ParentPath(parent.pos)).kind = "CallExpression" )
                       => e.name = ""

(***************************************************************************)
(* C7: the file score, the score of every reported container and every    *)
(* score a nodeCost call returns are non-negative integers, and so is the  *)
(* depth of every nodeCost call.                                           *)
(***************************************************************************)
C7_ScoresAndDepthsNonNegative ==
    Returned =>
        /\ out.score \in Nat
        /\ \A e \in EntriesOf(out.inner) : e.score \in Nat
        /\ \A c \in out.calls : c.score \in Nat /\ c.own \in Nat /\ c.depth \in Nat

C7_Witness ==
    /\ Returned
    /\ out.score > 0
    /\ \E e \in EntriesOf(out.inner) : e.score > 0 /\ e.inner # <<>>
    /\ \E c \in out.calls : c.depth > 0 /\ c.own > c.depth

(***************************************************************************)
(* C8: every function-like, class or module node of the tree is reported   *)
(* as exactly one entry, and the entry is in the inner list of the nearest *)
(* enclosing reported container, or of the file when there is none.        *)
(***************************************************************************)
\* the entries of a report with the position of the entry each is listed
\* under (<<>>, the root, for the file's own list)
RECURSIVE Listing(_, _)
Listing(inner, owner) ==
    IF inner = <<>> THEN <<>>
    ELSE <<[pos |-> Head(inner).pos, owner |-> owner]>>
         \o Listing(Head(inner).inner, Head(inner).pos)
         \o Listing(Tail(inner), owner)

NearestContainer(p, paths) ==
    LET around == {q \in paths : q # p /\ IsPrefix(q, p)}
    IN  IF around = {} THEN <<>>
        ELSE CHOOSE q \in around : \A r \in around : Len(r) <= Len(q)

C8_EachContainerListedOnceUnderItsParent ==
    Returned =>
        LET listing == Listing(out.inner, <<>>)
            paths == ContainerPaths(file)
        IN  /\ {listing[i].pos : i \in DOMAIN listing} = paths
            /\ Len(listing) = Cardinality(paths)
            /\ \A i \in DOMAIN listing :
                   listing[i].owner = NearestContainer(listing[i].pos, paths)

C8_Witness ==
    /\ Returned
    /\ Cardinality(ContainerPaths(file)) = 2
    /\ Len(out.inner) = 1
    /\ Len(out.inner[1].inner) = 1
    /\ out.inner[1].inner[1].inner = <<>>
    /\ NodeAt(file, out.inner[1].pos).kind = "FunctionDeclaration"
    /\ NodeAt(file, out.inner[1].inner[1].pos).kind = "FunctionDeclaration"

(***************************************************************************)
(* C9: a break or continue statement is charged exactly 1 when it names a  *)
(* label and exactly 0 when it does not, at every depth.                   *)
(***************************************************************************)
HasLabel(node) == Len(node.children) >= 2 /\ node.children[2].kind = "Identifier"

C9_OnlyLabelledJumpsCharged ==
    Returned =>
        \A c \in out.calls :
            c.kind \in {"BreakStatement", "ContinueStatement"} =>
                c.own = IF HasLabel(NodeAt(file, c.pos)) THEN 1 ELSE 0

C9_Witness ==
    /\ Returned
    /\ \E c \in out.calls :
           /\ c.kind = "ContinueStatement"
           /\ HasLabel(NodeAt(file, c.pos))
           /\ c.depth >= 1
           /\ c.own = 1

(***************************************************************************)
(* C10: fileCost raises, and returns no report, exactly when some method   *)
(* or module declaration of the tree has no identifier; otherwise it       *)
(* returns the report.                                                     *)
(***************************************************************************)
RECURSIVE HasNamelessDeclaration(_)
HasNamelessDeclaration(node) ==
    \/ /\ node.kind \in {"MethodDeclaration", "ModuleDeclaration"}
       /\ \A i \in DOMAIN node.children : node.children[i].kind # "Identifier"
    \/ \E i \in DOMAIN node.children : HasNamelessDeclaration(node.children[i])

C10_NamelessDeclarationAbortsFile ==
    pc = "done" =>
        /\ out.status \in {"raised", "returned"}
        /\ HasNamelessDeclaration(file) <=> out.status = "raised"
        /\ out.status = "raised" => out.inner = <<>> /\ out.calls = {}

C10_Witness ==
    /\ pc = "done"
    /\ out.status = "raised"
    /\ TopStatements[1].kind = "FunctionDeclaration"
    /\ \E p \in ContainerPaths(file) :
           /\ Len(p) >= 7
           /\ NodeAt(file, p).kind = "MethodDeclaration"
           /\ NodeAt(file, p).children[1].kind = "StringLiteral"

(***************************************************************************)
(* C11: an `if` visited at depth d > 0 is charged the nesting increment d  *)
(* unless it is the statement after the else keyword of its parent `if`;   *)
(* an `if` that is the unbraced then-statement of an `if` is charged it.   *)
(***************************************************************************)
SoloElseCharge(node) ==
    IF Len(node.children) = 7 /\ node.children[7].kind # "IfStatement" THEN 1 ELSE 0

\* the node of call c is the statement after its parent's else keyword
IsElseIfContinuation(c) ==
    /\ c.parentKind = "IfStatement"
    /\ c.pos[Len(c.pos)] = 7

IsUnbracedThenOfIf(c) ==
    /\ c.parentKind = "IfStatement"
    /\ c.pos[Len(c.pos)] = 5

C11_NestingUnlessElseIf ==
    Returned =>
        \A c \in out.calls :
            (c.kind = "IfStatement" /\ c.depth > 0) =>
                c.own = 1 + SoloElseCharge(NodeAt(file, c.pos))
                        + (IF IsElseIfContinuation(c) THEN 0 ELSE c.depth)

(***************************************************************************)
(* C12: at every node visited by nodeCost the namedAncestors argument is   *)
(* exactly the names contributed by the node's proper ancestors, in        *)
(* root-to-node order; the context a node hands to its children is its own *)
(* context or its own context with exactly one name appended; a name is    *)
(* never visible outside the subtree of the node that contributed it, so a *)
(* call to a function that is not an ancestor is not charged as recursion. *)
(***************************************************************************)
NameContributedBy(node) ==
    IF node.kind \in {"VariableDeclaration", "ClassDeclaration", "ModuleDeclaration"}
    THEN <<GetDeclarationName(node)>>
    ELSE IF node.kind \in FunctionKinds /\ GetFunctionNodeName(node, Undefined) \notin {Undefined, ""}
    THEN <<GetFunctionNodeName(node, Undefined)>>
    ELSE <<>>

RECURSIVE NamesAbove(_)
NamesAbove(p) ==
    IF p = <<>> THEN <<>>
    ELSE NamesAbove(ParentPath(p)) \o NameContributedBy(NodeAt(file, ParentPath(p)))

NamesOf(names) == {names[i] : i \in DOMAIN names}

C12_NamedAncestorsAreProperAncestorNames ==
    Returned =>
        /\ \A c \in out.calls : c.namedAncestors = NamesAbove(c.pos)
        /\ \A c, d \in out.calls :
               (Len(d.pos) > 1 /\ ParentPath(d.pos) = c.pos) =>
                   \/ d.namedAncestors = c.namedAncestors
                   \/ /\ Len(d.namedAncestors) = Len(c.namedAncestors) + 1
                      /\ IsPrefix(c.namedAncestors, d.namedAncestors)
        /\ \A c \in out.calls :
               (/\ c.kind = "CallExpression"
                /\ CallTarget(c).kind = "Identifier"
                /\ CallTarget(c).text \notin NamesOf(NamesAbove(c.pos))) => c.own = 0

\* g calls its sibling f: the nodes inside f see the name f, the call inside
\* g sees g only and is not charged
C12_Witness ==
    /\ Returned
    /\ \E i \in DOMAIN TopFunctions : GetFunctionNodeName(TopFunctions[i], Undefined) = "f"
    /\ \E c \in out.calls :
           /\ c.kind = "CallExpression"
           /\ CallTarget(c).kind = "Identifier"
           /\ CallTarget(c).text = "f"
           /\ c.namedAncestors = <<"g">>
           /\ c.own = 0
    /\ \E c \in out.calls : c.namedAncestors = <<"f">>

(***************************************************************************)
(* C13: in the report of fileCost the score of the file, and of every      *)
(* container at every level, is at least the sum of the scores of the      *)
(* entries of its own inner list.                                          *)
(***************************************************************************)
RECURSIVE SumOfInner(_)
SumOfInner(inner) ==
    IF inner = <<>> THEN 0 ELSE Head(inner).score + SumOfInner(Tail(inner))

C13_ScoreCoversInner ==
    Returned =>
        /\ out.score >= SumOfInner(out.inner)
        /\ \A e \in EntriesOf(out.inner) : e.score >= SumOfInner(e.inner)

\* a file with code outside its containers, whose containers hold scoring
\* containers in turn: strict at the top, equal or strict further down
C13_Witness ==
    /\ Returned
    /\ Len(out.inner) >= 1
    /\ out.score > SumOfInner(out.inner)
    /\ SumOfInner(out.inner) > 0
    /\ \E e \in EntriesOf(out.inner) : e.inner # <<>> /\ SumOfInner(e.inner) > 0

(***************************************************************************)
(* C14: in the class-based engine, scoring a file whose `if` statements    *)
(* (with or without else) and `while` statements are well formed completes *)
(* without UnexpectedNodeError and without the child iterator running past *)
(* its end.                                                                *)
(***************************************************************************)
C14_IfAndWhileScoreWithoutRaising ==
    pc = "done" => out.status \notin {"UnexpectedNodeError", "IteratorDone"}

====
